---- MODULE Spec2Model ----
(***************************************************************************)
(* The TechStore REST backend (src/Backend/index.js) as a state machine.   *)
(*                                                                         *)
(* The three in-memory collections products, users and sales, the three    *)
(* JSON files they are written to, the bearer tokens the service has       *)
(* signed, and the requests that are suspended at an await.  A handler     *)
(* runs without interruption between two awaits (one JavaScript thread),   *)
(* so every action below is one such run: from the arrival of the request  *)
(* or the completion of an awaited promise to the next await or response.  *)
(*                                                                         *)
(* index.js holds the routes of the first API (lines 1-192, no             *)
(* authentication) and of the second one (lines 193-554); both sets of     *)
(* routes are operations of the service.                                   *)
(*                                                                         *)
(* The cart of the storefront (src/frontend/src/App.jsx) is a second state *)
(* machine over the variables cart and catalog, which no route changes.    *)
(***************************************************************************)
EXTENDS Integers, Sequences, FiniteSets, TLC

\* ----- bounds of the model
MaxReqs == 2      \* requests that can be suspended at an await at once
MaxLines == 2     \* lines in a cart
MaxQty == 2       \* largest quantity of a cart line or of a POST /sales
MaxRequests == 2  \* requests the service receives in a run
MaxAccountRequests == 3  \* the same, in the runs of SpecAccounts
MaxStock == 3     \* largest stock of a product the storefront has fetched

\* ----- program constants
JWT_SECRET == "tu_clave_secreta_muy_segura_cambiar_en_produccion"

Slots == 1..MaxReqs
Emails == {"a@x", "b@x", "c@x"}
Passwords == {"p", "q"}
Names == {"n", "m"}
Prices == {1, 2}
Quantities == 1..MaxQty

\* products.json, users.json and sales.json as read at startup
SeedProducts ==
    << [id |-> 1, name |-> "k", category |-> "c", image |-> "i", price |-> 1, stock |-> 2],
       [id |-> 2, name |-> "l", category |-> "c", image |-> "j", price |-> 2, stock |-> 1] >>
ProductIds == {SeedProducts[i].id : i \in DOMAIN SeedProducts}
UnknownProductId == 9

\* bcrypt.hash(password, 10): a value that is not the password and that
\* bcrypt.compare recognises; Absent is a missing (undefined) field
Absent == [kind |-> "undefined", of |-> ""]
Raw(password) == [kind |-> "string", of |-> password]
bcryptHash(password) == [kind |-> "bcrypt", of |-> password]

SeedUsers ==
    << [id |-> 1, name |-> "n", email |-> "a@x", password |-> bcryptHash("p"), role |-> "admin"],
       [id |-> 2, name |-> "n", email |-> "b@x", password |-> bcryptHash("p"), role |-> "customer"] >>

VARIABLES
    products,      \* the products array
    users,         \* the users array
    sales,         \* the sales array
    diskProducts,  \* ./data/products.json
    diskUsers,     \* ./data/users.json
    diskSales,     \* ./data/sales.json
    issued,        \* the claims the service has signed a token for
    req,           \* per slot: the handler suspended at an await, or idle
    received,      \* the number of requests received so far
    response,      \* the response sent by the last step, if it sent one
    limit,         \* the number of requests the service receives in the run
    failed,        \* whether a writeFile of the run has rejected
    cart,          \* the storefront's cart (CartProvider's state)
    catalog        \* the products the storefront has fetched (App's state)

vars == <<products, users, sales, diskProducts, diskUsers, diskSales, issued, req, received,
          response, limit, failed, cart, catalog>>

\* what no route of the service changes: the length of the run, the record
\* of a rejected write and the state of the storefront
frame == <<limit, failed, cart, catalog>>

\* ----- helpers
\* seq.findIndex(x => x.id == id), 1-based; 0 when no element matches
\* (seq.find returns the element at that index)
IndexById(seq, id) ==
    IF \E i \in DOMAIN seq : seq[i].id = id
    THEN CHOOSE i \in DOMAIN seq : seq[i].id = id /\ \A j \in 1..(i - 1) : seq[j].id # id
    ELSE 0

\* users.find(u => u.email === email), as an index
IndexByEmail(seq, email) ==
    IF \E i \in DOMAIN seq : seq[i].email = email
    THEN CHOOSE i \in DOMAIN seq : seq[i].email = email /\ \A j \in 1..(i - 1) : seq[j].email # email
    ELSE 0

\* sales.filter(s => s.userId == id)
SalesOfProduct(id) == SelectSeq(sales, LAMBDA sale : sale.productId = id)
SalesOfUser(id) == SelectSeq(sales, LAMBDA sale : sale.userId = id)

\* Array.prototype.splice(index, 1)
Splice(seq, index) == SubSeq(seq, 1, index - 1) \o SubSeq(seq, index + 1, Len(seq))

\* ----- requests and responses
\* a suspended handler: where it is (pc), which API's handler it is (api: 1 the
\* routes of lines 1-192, 2 those of lines 193-554) and the locals it holds;
\* usersBefore is no local: it records users.length at the arrival of a
\* registration, for the properties that speak of it
NoClaim == [id |-> 0, email |-> "", role |-> ""]
NoUser == [id |-> 0, name |-> "", email |-> "", password |-> Absent, role |-> ""]
NoBody == [name |-> "", email |-> "", password |-> "", items |-> <<>>]

IdleReq ==
    [pc |-> "idle", api |-> 0, body |-> NoBody, currentUser |-> 0, newSales |-> <<>>,
     orderTotal |-> 0, writing |-> <<>>, newUser |-> NoUser, index |-> 0,
     usersBefore |-> 0]

\* const { password: _, ...userWithoutPassword } = user
WithPassword(user) == user
WithoutPassword(user) == [field \in DOMAIN user \ {"password"} |-> user[field]]

NoResponse ==
    [op |-> "", status |-> 0, error |-> "", product |-> 0, available |-> 0,
     token |-> NoClaim, items |-> <<>>, total |-> 0, id |-> 0,
     user |-> WithoutPassword(NoUser)]

Resp(op, status, error) == [NoResponse EXCEPT !.op = op, !.status = status, !.error = error]

\* ----- bearer tokens
\* jwt.sign(claim, JWT_SECRET, { expiresIn: '24h' })
jwtSign(claim) == [claim |-> claim, secret |-> JWT_SECRET, expired |-> FALSE]

\* the same token once its 24 hours have passed
Expired(token) == [token EXCEPT !.expired = TRUE]

\* a token signed by somebody who does not hold the secret
Forged(claim) == [claim |-> claim, secret |-> "guess", expired |-> FALSE]

\* jwt.verify(token, JWT_SECRET, cb): err unless the signature and the expiry check pass
jwtVerify(token) == token.secret = JWT_SECRET /\ ~token.expired

\* the Authorization headers a client can send, as authHeader.split(' '):
\* no header, a scheme with no token, and a scheme with a token
AuthHeaders ==
    {<<>>, <<"Bearer">>}
    \cup {<<"Bearer", jwtSign(c)>> : c \in issued}
    \cup {<<"Bearer", Expired(jwtSign(c))>> : c \in issued}
    \cup {<<"Bearer", Forged([id |-> 1, email |-> "a@x", role |-> "admin"])>>}

\* authenticateToken: the status it answers (200: next() is called) and req.user
authenticateToken(authHeader) ==
    IF Len(authHeader) < 2
    THEN [status |-> 401, error |-> "Token no proporcionado", user |-> NoClaim]
    ELSE IF ~jwtVerify(authHeader[2])
    THEN [status |-> 403, error |-> "Token invalido o expirado", user |-> NoClaim]
    ELSE [status |-> 200, error |-> "", user |-> authHeader[2].claim]

\* ----- carts
CartLines == [id : ProductIds \cup {UnknownProductId}, quantity : Quantities]
Carts == UNION {[1..n -> CartLines] : n \in 0..MaxLines}

\* product.stock < item.quantity
NoStockCheck(product, item) == FALSE
StaleStockCheck(product, item) ==
    SeedProducts[IndexById(SeedProducts, product.id)].stock < item.quantity
InsufficientStock(product, item) == product.stock < item.quantity

\* sales.length + newSales.length + 1
SaleIdWithoutOffset(newSales) == Len(sales) + 1
SaleIdFromFile(newSales) == Len(diskSales) + Len(newSales) + 1
SaleId(newSales) == Len(sales) + Len(newSales) + 1

\* JSON.stringify(collection, null, 2), evaluated when writeFile is called:
\* the text written is the collection as it is at the call, whatever is
\* pushed or assigned while the write is awaited
EmptyText(collection) == <<>>
Snapshot(collection) == collection

\* sales.push(...newSales)
Unshift(list, newSales) == newSales \o list
Push(list, newSales) == list \o newSales

\* product.price * item.quantity
UnitPrice(product, item) == product.price
SaleTotal(product, item) == product.price * item.quantity

\* the for-loop of POST /orders over the remaining items: the status it ends
\* with (and, for a 400, the product and the stock its message names), and
\* products, newSales and orderTotal as it leaves them
RECURSIVE OrderLoop(_, _, _, _, _)
OrderLoop(items, userId, prods, newSales, orderTotal) ==
    IF items = <<>>
    THEN [status |-> 201, error |-> "", product |-> 0, available |-> 0,
          products |-> prods, newSales |-> newSales, orderTotal |-> orderTotal]
    ELSE LET item == Head(items)
             i == IndexById(prods, item.id)
         IN  IF i = 0
             THEN [status |-> 400, error |-> "Producto no encontrado",
                   product |-> item.id, available |-> 0,
                   products |-> prods, newSales |-> newSales, orderTotal |-> orderTotal]
             ELSE IF InsufficientStock(prods[i], item)
             THEN [status |-> 400, error |-> "Stock insuficiente",
                   product |-> prods[i].id, available |-> prods[i].stock,
                   products |-> prods, newSales |-> newSales, orderTotal |-> orderTotal]
             ELSE LET saleTotal == SaleTotal(prods[i], item)
                      newSale == [id |-> SaleId(newSales),
                                  userId |-> userId,
                                  productId |-> prods[i].id,
                                  quantity |-> item.quantity,
                                  total |-> saleTotal]
                  IN  OrderLoop(Tail(items), userId,
                                [prods EXCEPT ![i].stock = @ - item.quantity],
                                Append(newSales, newSale),
                                orderTotal + saleTotal)

\* the loop, sales.push(...newSales) and the call of writeFile(sales.json):
\* what both POST /orders handlers do from the loop to their next await
RunOrder(s, api, items, userId) ==
    LET r == OrderLoop(items, userId, products, <<>>, 0)
    IN  /\ products' = r.products
        /\ IF r.status = 201
           THEN /\ sales' = Push(sales, r.newSales)
                /\ req' = [req EXCEPT ![s] =
                             [IdleReq EXCEPT !.pc = "order_sales",
                                             !.api = api,
                                             !.body = [NoBody EXCEPT !.items = items],
                                             !.currentUser = userId,
                                             !.newSales = r.newSales,
                                             !.orderTotal = r.orderTotal,
                                             !.writing = Snapshot(Push(sales, r.newSales))]]
                /\ response' = NoResponse
           ELSE /\ sales' = sales
                /\ req' = [req EXCEPT ![s] = IdleReq]
                /\ response' = [Resp("order", r.status, r.error) EXCEPT
                                    !.product = r.product, !.available = r.available]

\* a request arrives (the model stops receiving after MaxRequests requests)
Arrives ==
    /\ received < limit
    /\ received' = received + 1

\* a request arrives whose handler may suspend: it takes the first idle slot
Receive(s) ==
    /\ Arrives
    /\ req[s].pc = "idle"
    /\ \A other \in 1..(s - 1) : req[other].pc # "idle"

Answer(r) ==
    /\ response' = r
    /\ UNCHANGED <<products, users, sales, diskProducts, diskUsers, diskSales, issued, req, frame>>

\* POST /orders (authenticated), from the request to the first await
PostOrders(s, authHeader, items) ==
    /\ Receive(s)
    /\ LET auth == authenticateToken(authHeader)
           userIndex == IndexById(users, auth.user.id)
       IN  IF auth.status # 200
           THEN Answer(Resp("order", auth.status, auth.error))
           ELSE IF items = <<>>
           THEN Answer(Resp("order", 400, "El carrito esta vacio"))
           ELSE IF userIndex = 0
           THEN Answer(Resp("order", 404, "Usuario no encontrado"))
           ELSE /\ RunOrder(s, 2, items, users[userIndex].id)
                /\ UNCHANGED <<users, diskProducts, diskUsers, diskSales, issued, frame>>

\* POST /orders: writeFile(sales.json) has completed; writeFile(products.json)
\* is called with the products array as it is now
OrderSalesWritten(s) ==
    /\ req[s].pc = "order_sales"
    /\ diskSales' = req[s].writing
    /\ req' = [req EXCEPT ![s].pc = "order_products", ![s].writing = Snapshot(products)]
    /\ response' = NoResponse
    /\ UNCHANGED <<products, users, sales, diskProducts, diskUsers, issued, received, frame>>

\* POST /orders: writeFile(products.json) has completed; the 201 response
OrderProductsWritten(s) ==
    /\ req[s].pc = "order_products"
    /\ diskProducts' = req[s].writing
    /\ req' = [req EXCEPT ![s] = IdleReq]
    /\ response' = [Resp("order", 201, "") EXCEPT !.id = req[s].newSales[1].id,
                                                   !.items = req[s].newSales,
                                                   !.total = req[s].orderTotal]
    /\ UNCHANGED <<products, users, sales, diskSales, diskUsers, issued, received, frame>>

\* ----- POST /auth/register
RegisterBodies == [name : {"", "n"}, email : Emails \cup {""}, password : Passwords \cup {""}]

\* existingUser = users.find(u => u.email === email)
NoExistingUser(email) == FALSE
ExistingUser(email) == IndexByEmail(users, email) # 0

\* from the request to await bcrypt.hash
PostAuthRegister(s, body) ==
    /\ Receive(s)
    /\ IF body.name = "" \/ body.email = "" \/ body.password = ""
       THEN Answer(Resp("register", 400, "Nombre, email y contrasena son requeridos"))
       ELSE IF ExistingUser(body.email)
       THEN Answer(Resp("register", 400, "El email ya esta registrado"))
       ELSE /\ req' = [req EXCEPT ![s] =
                         [IdleReq EXCEPT !.pc = "register_hash",
                                         !.api = 2,
                                         !.usersBefore = Len(users),
                                         !.body = [NoBody EXCEPT !.name = body.name,
                                                                 !.email = body.email,
                                                                 !.password = body.password]]]
            /\ response' = NoResponse
            /\ UNCHANGED <<products, users, sales, diskProducts, diskUsers, diskSales, issued, frame>>

\* bcrypt.hash has completed: newUser is built and pushed, writeFile(users.json) is called
RegisterHashed(s) ==
    /\ req[s].pc = "register_hash"
    /\ LET newUser == [id |-> Len(users) + 1,
                       name |-> req[s].body.name,
                       email |-> req[s].body.email,
                       password |-> bcryptHash(req[s].body.password),
                       role |-> "customer"]
       IN  /\ users' = Append(users, newUser)
           /\ req' = [req EXCEPT ![s] =
                        [IdleReq EXCEPT !.pc = "register_write",
                                        !.api = 2,
                                        !.newUser = newUser,
                                        !.writing = Append(users, newUser)]]
    /\ response' = NoResponse
    /\ UNCHANGED <<products, sales, diskProducts, diskUsers, diskSales, issued, received, frame>>

\* writeFile(users.json) has completed: the token is signed and the 201 sent
RegisterWritten(s) ==
    /\ req[s].pc = "register_write"
    /\ diskUsers' = req[s].writing
    /\ LET claim == [id |-> req[s].newUser.id, email |-> req[s].newUser.email,
                     role |-> req[s].newUser.role]
       IN  /\ issued' = issued \cup {claim}
           /\ response' = [Resp("register", 201, "") EXCEPT
                               !.user = WithoutPassword(req[s].newUser),
                               !.token = claim]
    /\ req' = [req EXCEPT ![s] = IdleReq]
    /\ UNCHANGED <<products, users, sales, diskProducts, diskSales, received, frame>>

\* ----- POST /auth/login
LoginBodies == [email : Emails \cup {""}, password : Passwords \cup {""}]

\* bcrypt.compare(password, hash): throws when the hash is undefined, false
\* when the stored value is no bcrypt hash
bcryptCompare(password, hash) ==
    IF hash.kind = "undefined" THEN "throws"
    ELSE IF hash.kind = "bcrypt" /\ hash.of = password THEN "true"
    ELSE "false"

\* the handler awaits bcrypt.compare holding the user object it found; it
\* reads only that object's id, email, role and password, which no route
\* changes, so the handler is one step
PostAuthLogin(body) ==
    /\ Arrives
    /\ LET userIndex == IndexByEmail(users, body.email)
           user == users[userIndex]
           claim == [id |-> user.id, email |-> user.email, role |-> user.role]
       IN  IF body.email = "" \/ body.password = ""
           THEN Answer(Resp("login", 400, "Email y contrasena son requeridos"))
           ELSE IF userIndex = 0
           THEN Answer(Resp("login", 401, "Credenciales invalidas"))
           ELSE IF bcryptCompare(body.password, user.password) = "throws"
           THEN Answer(Resp("login", 500, "Error al iniciar sesion"))
           ELSE IF bcryptCompare(body.password, user.password) = "false"
           THEN Answer(Resp("login", 401, "Credenciales invalidas"))
           ELSE /\ issued' = issued \cup {claim}
                /\ response' = [Resp("login", 200, "") EXCEPT !.token = claim]
                /\ UNCHANGED <<products, users, sales, diskProducts, diskUsers, diskSales, req, frame>>

\* ----- GET /orders/my-orders, GET /auth/profile
GetOrdersMyOrders(authHeader) ==
    /\ Arrives
    /\ LET auth == authenticateToken(authHeader)
       IN  IF auth.status # 200
           THEN Answer(Resp("my-orders", auth.status, auth.error))
           ELSE Answer([Resp("my-orders", 200, "") EXCEPT
                           !.items = SalesOfUser(auth.user.id)])

GetAuthProfile(authHeader) ==
    /\ Arrives
    /\ LET auth == authenticateToken(authHeader)
           userIndex == IndexById(users, auth.user.id)
           user == users[userIndex]
       IN  IF auth.status # 200
           THEN Answer(Resp("profile", auth.status, auth.error))
           ELSE IF userIndex = 0
           THEN Answer(Resp("profile", 404, "Usuario no encontrado"))
           ELSE Answer([Resp("profile", 200, "") EXCEPT
                           !.token = [id |-> user.id, email |-> user.email, role |-> user.role]])

\* ----- PUT /auth/profile (name: "" when the body has none)
PutAuthProfile(s, authHeader, name) ==
    /\ Receive(s)
    /\ LET auth == authenticateToken(authHeader)
           userIndex == IndexById(users, auth.user.id)
           updated == IF name # "" THEN [users EXCEPT ![userIndex].name = name] ELSE users
       IN  IF auth.status # 200
           THEN Answer(Resp("profile-update", auth.status, auth.error))
           ELSE IF userIndex = 0
           THEN Answer(Resp("profile-update", 404, "Usuario no encontrado"))
           ELSE /\ users' = updated
                /\ req' = [req EXCEPT ![s] =
                             [IdleReq EXCEPT !.pc = "profile_write",
                                             !.api = 2,
                                             !.index = userIndex,
                                             !.writing = updated]]
                /\ response' = NoResponse
                /\ UNCHANGED <<products, sales, diskProducts, diskUsers, diskSales, issued, frame>>

\* writeFile(users.json) has completed; users[userIndex] is read again for the
\* response, and destructuring it throws (caught: 500) when it is no longer there
ProfileWritten(s) ==
    /\ req[s].pc = "profile_write"
    /\ diskUsers' = req[s].writing
    /\ req' = [req EXCEPT ![s] = IdleReq]
    /\ response' = IF req[s].index \in DOMAIN users
                   THEN Resp("profile-update", 200, "")
                   ELSE Resp("profile-update", 500, "Error al actualizar perfil")
    /\ UNCHANGED <<products, users, sales, diskProducts, diskSales, issued, received, frame>>

\* ----- the administrative routes
\* isAdmin: the status it answers (200: next() is called)
isAdmin(user) ==
    IF user.role # "admin"
    THEN [status |-> 403, error |-> "Acceso denegado. Se requiere rol de administrador"]
    ELSE [status |-> 200, error |-> ""]

\* authenticateToken, then isAdmin
AdminGate(authHeader) ==
    LET auth == authenticateToken(authHeader)
    IN  IF auth.status # 200 THEN [status |-> auth.status, error |-> auth.error]
        ELSE isAdmin(auth.user)

UserIds == 1..(Len(SeedUsers) + MaxRequests)

\* products[index].price = price
WithPriceAndStock(product, price) == [product EXCEPT !.price = price, !.stock = price]
WithPrice(product, price) == [product EXCEPT !.price = price]

\* the handler of PUT /products/:id, the same in both APIs
UpdatePrice(s, api, id, price) ==
    LET index == IndexById(products, id)
    IN  IF index = 0
        THEN Answer(Resp("price", 404, "Producto no encontrado"))
        ELSE /\ products' = [products EXCEPT ![index] = WithPrice(@, price)]
             /\ req' = [req EXCEPT ![s] =
                          [IdleReq EXCEPT !.pc = "price_write",
                                          !.api = api,
                                          !.index = index,
                                          !.writing = [products EXCEPT ![index] = WithPrice(@, price)]]]
             /\ response' = NoResponse
             /\ UNCHANGED <<users, sales, diskProducts, diskUsers, diskSales, issued, frame>>

PriceWritten(s) ==
    /\ req[s].pc = "price_write"
    /\ diskProducts' = req[s].writing
    /\ req' = [req EXCEPT ![s] = IdleReq]
    /\ response' = [Resp("price", 200, "") EXCEPT !.total = products[req[s].index].price]
    /\ UNCHANGED <<products, users, sales, diskUsers, diskSales, issued, received, frame>>

\* the handler of DELETE /users/:id, the same in both APIs
DeleteUser(s, api, id) ==
    LET userSales == SalesOfUser(id)
        index == IndexById(users, id)
    IN  IF Len(userSales) > 0
        THEN Answer(Resp("delete-user", 400, "No se puede eliminar el usuario con ventas registradas"))
        ELSE IF index = 0
        THEN Answer(Resp("delete-user", 404, "Usuario no encontrado"))
        ELSE /\ users' = Splice(users, index)
             /\ req' = [req EXCEPT ![s] =
                          [IdleReq EXCEPT !.pc = "delete_write",
                                          !.api = api,
                                          !.writing = Splice(users, index)]]
             /\ response' = NoResponse
             /\ UNCHANGED <<products, sales, diskProducts, diskUsers, diskSales, issued, frame>>

DeleteWritten(s) ==
    /\ req[s].pc = "delete_write"
    /\ diskUsers' = req[s].writing
    /\ req' = [req EXCEPT ![s] = IdleReq]
    /\ response' = Resp("delete-user", 200, "")
    /\ UNCHANGED <<products, users, sales, diskProducts, diskSales, issued, received, frame>>

\* PUT /products/:id (admin)
PutProductsId(s, authHeader, id, price) ==
    /\ Receive(s)
    /\ LET gate == AdminGate(authHeader)
       IN  IF gate.status # 200
           THEN Answer(Resp("price", gate.status, gate.error))
           ELSE UpdatePrice(s, 2, id, price)

\* DELETE /users/:id (admin)
DeleteUsersId(s, authHeader, id) ==
    /\ Receive(s)
    /\ LET gate == AdminGate(authHeader)
       IN  IF gate.status # 200
           THEN Answer(Resp("delete-user", gate.status, gate.error))
           ELSE DeleteUser(s, 2, id)

\* GET /sales (admin)
GetSales(authHeader) ==
    /\ Arrives
    /\ LET gate == AdminGate(authHeader)
       IN  IF gate.status # 200
           THEN Answer(Resp("sales", gate.status, gate.error))
           ELSE Answer([Resp("sales", 200, "") EXCEPT !.items = sales])

\* ----- the routes of the first API (no middleware)
\* POST /orders: from the request to the first await
PostOrdersLegacy(s, email, items) ==
    /\ Receive(s)
    /\ LET userIndex == IndexByEmail(users, email)
           currentUser == [id |-> Len(users) + 1, name |-> "n", email |-> email,
                           password |-> Absent, role |-> "customer"]
       IN  IF items = <<>>
           THEN Answer(Resp("order", 400, "Datos incompletos"))
           ELSE IF userIndex # 0
           THEN /\ RunOrder(s, 1, items, users[userIndex].id)
                /\ UNCHANGED <<users, diskProducts, diskUsers, diskSales, issued, frame>>
           ELSE /\ users' = Append(users, currentUser)
                /\ req' = [req EXCEPT ![s] =
                             [IdleReq EXCEPT !.pc = "legacy_users",
                                             !.api = 1,
                                             !.body = [NoBody EXCEPT !.items = items],
                                             !.currentUser = currentUser.id,
                                             !.writing = Append(users, currentUser)]]
                /\ response' = NoResponse
                /\ UNCHANGED <<products, sales, diskProducts, diskUsers, diskSales, issued, frame>>

\* POST /orders: writeFile(users.json) has completed; the loop runs
LegacyUsersWritten(s) ==
    /\ req[s].pc = "legacy_users"
    /\ diskUsers' = req[s].writing
    /\ RunOrder(s, 1, req[s].body.items, req[s].currentUser)
    /\ UNCHANGED <<users, diskProducts, diskSales, issued, received, frame>>

\* POST /users: the body is stored as it came, with id and role set; the
\* body can itself name a role ("" when it names none)
UserBodies == [email : Emails, password : {Absent, Raw("p")}, role : {"", "admin"}]

\* newUser.role = 'customer'
RoleOfBody(body) == body.role
AssignedRole(body) == "customer"

PostUsers(s, body) ==
    /\ Receive(s)
    /\ LET newUser == [id |-> Len(users) + 1, name |-> "n", email |-> body.email,
                       password |-> body.password, role |-> AssignedRole(body)]
       IN  /\ users' = Append(users, newUser)
           /\ req' = [req EXCEPT ![s] =
                        [IdleReq EXCEPT !.pc = "users_write",
                                        !.api = 1,
                                        !.writing = Append(users, newUser)]]
    /\ response' = NoResponse
    /\ UNCHANGED <<products, sales, diskProducts, diskUsers, diskSales, issued, frame>>

UsersWritten(s) ==
    /\ req[s].pc = "users_write"
    /\ diskUsers' = req[s].writing
    /\ req' = [req EXCEPT ![s] = IdleReq]
    /\ response' = Resp("users", 201, "")
    /\ UNCHANGED <<products, users, sales, diskProducts, diskSales, issued, received, frame>>

\* POST /sales
PostSales(s, userId, productId, quantity) ==
    /\ Receive(s)
    /\ LET userIndex == IndexById(users, userId)
           productIndex == IndexById(products, productId)
           newSale == [id |-> Len(sales) + 1,
                       userId |-> userId,
                       productId |-> productId,
                       quantity |-> quantity,
                       total |-> products[productIndex].price * quantity]
       IN  IF userIndex = 0 \/ productIndex = 0
           THEN Answer(Resp("sale", 400, "Usuario o producto invalido"))
           ELSE /\ sales' = Append(sales, newSale)
                /\ req' = [req EXCEPT ![s] =
                             [IdleReq EXCEPT !.pc = "sale_write",
                                             !.api = 1,
                                             !.newSales = <<newSale>>,
                                             !.writing = Append(sales, newSale)]]
                /\ response' = NoResponse
                /\ UNCHANGED <<products, users, diskProducts, diskUsers, diskSales, issued, frame>>

SaleWritten(s) ==
    /\ req[s].pc = "sale_write"
    /\ diskSales' = req[s].writing
    /\ req' = [req EXCEPT ![s] = IdleReq]
    /\ response' = [Resp("sale", 201, "") EXCEPT !.items = req[s].newSales]
    /\ UNCHANGED <<products, users, sales, diskProducts, diskUsers, issued, received, frame>>

\* PUT /products/:id and DELETE /users/:id
PutProductsIdLegacy(s, id, price) ==
    /\ Receive(s)
    /\ UpdatePrice(s, 1, id, price)

DeleteUsersIdLegacy(s, id) ==
    /\ Receive(s)
    /\ DeleteUser(s, 1, id)

\* ----- a writeFile that fails
\* the handlers that are suspended at an awaited writeFile
AwaitsWrite(r) ==
    r.pc \in {"order_sales", "order_products", "register_write", "profile_write",
              "price_write", "delete_write", "legacy_users", "users_write", "sale_write"}

\* the handlers whose awaits are inside a try block, and what their catch answers
Catches(r) ==
    r.api = 2 /\ r.pc \in {"order_sales", "order_products", "register_write", "profile_write"}

CaughtError(r) ==
    IF r.pc \in {"order_sales", "order_products"} THEN Resp("order", 500, "Error al crear la orden")
    ELSE IF r.pc = "register_write" THEN Resp("register", 500, "Error al registrar usuario")
    ELSE Resp("profile-update", 500, "Error al actualizar perfil")

\* the route of a handler with no try block
Route(r) ==
    IF r.pc \in {"order_sales", "order_products", "legacy_users"} THEN "order"
    ELSE IF r.pc = "price_write" THEN "price"
    ELSE IF r.pc = "delete_write" THEN "delete-user"
    ELSE IF r.pc = "users_write" THEN "users"
    ELSE "sale"

\* the promise of the awaited writeFile rejects and the file is as it was.
\* Inside a try block the catch answers 500.  Otherwise the rejection leaves
\* the async handler: no response is sent, and the rejection is unhandled,
\* which, by the version and the flags of the runtime, is a logged warning
\* (the request is left without an answer) or the exit of the process (no
\* handler resumes and no request is received any more).
WriteFails(s) ==
    /\ AwaitsWrite(req[s])
    /\ IF Catches(req[s])
       THEN /\ response' = CaughtError(req[s])
            /\ req' = [req EXCEPT ![s] = IdleReq]
            /\ UNCHANGED received
       ELSE \/ /\ response' = Resp(Route(req[s]), 0, "unhandled rejection")
               /\ req' = [req EXCEPT ![s] = IdleReq]
               /\ UNCHANGED received
            \/ /\ response' = Resp(Route(req[s]), 0, "process exit")
               /\ req' = [other \in Slots |-> IdleReq]
               /\ received' = limit
    /\ failed' = TRUE
    /\ UNCHANGED <<products, users, sales, diskProducts, diskUsers, diskSales, issued,
                   limit, cart, catalog>>

\* ----- the service
\* the seed users' tokens: a token is valid for 24 hours whichever run of the
\* service signed it, so clients hold valid tokens when the service starts
SeedClaims ==
    {[id |-> SeedUsers[i].id, email |-> SeedUsers[i].email, role |-> SeedUsers[i].role] :
        i \in DOMAIN SeedUsers}

Init ==
    /\ products = SeedProducts
    /\ users = SeedUsers
    /\ sales = <<>>
    /\ diskProducts = SeedProducts
    /\ diskUsers = SeedUsers
    /\ diskSales = <<>>
    /\ issued = SeedClaims
    /\ req = [s \in Slots |-> IdleReq]
    /\ received = 0
    /\ response = NoResponse
    /\ limit = MaxRequests
    /\ failed = FALSE
    /\ cart = <<>>
    /\ catalog = <<>>

Next ==
    \/ \E s \in Slots, email \in Emails, items \in Carts : PostOrdersLegacy(s, email, items)
    \/ \E s \in Slots : LegacyUsersWritten(s)
    \/ \E s \in Slots, body \in UserBodies : PostUsers(s, body)
    \/ \E s \in Slots : UsersWritten(s)
    \/ \E s \in Slots, userId \in UserIds, productId \in ProductIds \cup {UnknownProductId},
          quantity \in Quantities : PostSales(s, userId, productId, quantity)
    \/ \E s \in Slots : SaleWritten(s)
    \/ \E s \in Slots, id \in ProductIds \cup {UnknownProductId}, price \in Prices :
          PutProductsIdLegacy(s, id, price)
    \/ \E s \in Slots, id \in UserIds : DeleteUsersIdLegacy(s, id)
    \/ \E s \in Slots, h \in AuthHeaders, items \in Carts : PostOrders(s, h, items)
    \/ \E s \in Slots : OrderSalesWritten(s)
    \/ \E s \in Slots : OrderProductsWritten(s)
    \/ \E s \in Slots, body \in RegisterBodies : PostAuthRegister(s, body)
    \/ \E s \in Slots : RegisterHashed(s)
    \/ \E s \in Slots : RegisterWritten(s)
    \/ \E body \in LoginBodies : PostAuthLogin(body)
    \/ \E h \in AuthHeaders : GetOrdersMyOrders(h)
    \/ \E h \in AuthHeaders : GetAuthProfile(h)
    \/ \E s \in Slots, h \in AuthHeaders, name \in Names \cup {""} : PutAuthProfile(s, h, name)
    \/ \E s \in Slots : ProfileWritten(s)
    \/ \E s \in Slots, h \in AuthHeaders, id \in ProductIds \cup {UnknownProductId}, price \in Prices :
          PutProductsId(s, h, id, price)
    \/ \E s \in Slots : PriceWritten(s)
    \/ \E s \in Slots, h \in AuthHeaders, id \in UserIds : DeleteUsersId(s, h, id)
    \/ \E s \in Slots : DeleteWritten(s)
    \/ \E h \in AuthHeaders : GetSales(h)
    \/ \E s \in Slots : WriteFails(s)

Spec == Init /\ [][Next]_vars

\* the service when it is sent order requests only
NextOrders ==
    \/ \E s \in Slots, email \in Emails, items \in Carts : PostOrdersLegacy(s, email, items)
    \/ \E s \in Slots : LegacyUsersWritten(s)
    \/ \E s \in Slots, h \in AuthHeaders, items \in Carts : PostOrders(s, h, items)
    \/ \E s \in Slots : OrderSalesWritten(s)
    \/ \E s \in Slots : OrderProductsWritten(s)
    \/ \E s \in Slots : WriteFails(s)

SpecOrders == Init /\ [][NextOrders]_vars

\* the service when it is sent deletions of users, registrations and
\* one-line orders, in runs of MaxAccountRequests requests
SingleLineCarts == {items \in Carts : Len(items) = 1}

InitAccounts ==
    /\ products = SeedProducts
    /\ users = SeedUsers
    /\ sales = <<>>
    /\ diskProducts = SeedProducts
    /\ diskUsers = SeedUsers
    /\ diskSales = <<>>
    /\ issued = SeedClaims
    /\ req = [s \in Slots |-> IdleReq]
    /\ received = 0
    /\ response = NoResponse
    /\ limit = MaxAccountRequests
    /\ failed = FALSE
    /\ cart = <<>>
    /\ catalog = <<>>

NextAccounts ==
    \/ \E s \in Slots, h \in AuthHeaders, items \in SingleLineCarts : PostOrders(s, h, items)
    \/ \E s \in Slots : OrderSalesWritten(s)
    \/ \E s \in Slots : OrderProductsWritten(s)
    \/ \E s \in Slots, body \in RegisterBodies : PostAuthRegister(s, body)
    \/ \E s \in Slots : RegisterHashed(s)
    \/ \E s \in Slots : RegisterWritten(s)
    \/ \E s \in Slots, h \in AuthHeaders, id \in UserIds : DeleteUsersId(s, h, id)
    \/ \E s \in Slots : DeleteWritten(s)

SpecAccounts == InitAccounts /\ [][NextAccounts]_vars

\* ======================================================================
\* The storefront (src/frontend/src/App.jsx): the cart of CartProvider and
\* the products App has fetched.  Every action is one click.
\* ======================================================================
backend == <<products, users, sales, diskProducts, diskUsers, diskSales, issued, req,
             received, response, failed>>

\* what GET /products can have returned when App mounted: the products of
\* the service, each with some stock
Catalogs ==
    {fetched \in [DOMAIN SeedProducts -> [id : ProductIds, stock : 0..MaxStock]] :
        \A i \in DOMAIN SeedProducts : fetched[i].id = SeedProducts[i].id}

\* existing.quantity >= product.stock
NeverAtStockLimit(existing, product) == FALSE
AtStockLimit(existing, product) == existing.quantity >= product.stock

\* addToCart: the updater it passes to setCart
addToCart(prev, product) ==
    LET existing == IndexById(prev, product.id)
    IN  IF existing # 0
        THEN IF AtStockLimit(prev[existing], product)
             THEN prev
             ELSE [prev EXCEPT ![existing].quantity = @ + 1]
        ELSE Append(prev, [id |-> product.id, stock |-> product.stock, quantity |-> 1])

\* removeFromCart: prev.filter(item => item.id !== productId)
removeFromCart(prev, productId) == SelectSeq(prev, LAMBDA item : item.id # productId)

\* updateQuantity
updateQuantity(prev, productId, quantity, maxStock) ==
    IF quantity <= 0
    THEN removeFromCart(prev, productId)
    ELSE IF quantity > maxStock
    THEN prev
    ELSE [k \in DOMAIN prev |->
            IF prev[k].id = productId THEN [prev[k] EXCEPT !.quantity = quantity] ELSE prev[k]]

\* ProductCard.handleAdd: the add button of the card of a fetched product
handleAdd(product) ==
    /\ cart' = IF product.stock <= 0 THEN cart ELSE addToCart(cart, product)
    /\ UNCHANGED <<backend, limit, catalog>>

\* the minus and plus buttons of a cart line:
\* updateQuantity(item.id, item.quantity - 1 or + 1, item.stock)
ClickQuantity(item, delta) ==
    /\ cart' = updateQuantity(cart, item.id, item.quantity + delta, item.stock)
    /\ UNCHANGED <<backend, limit, catalog>>

\* the remove button of a cart line: removeFromCart(item.id)
ClickRemove(item) ==
    /\ cart' = removeFromCart(cart, item.id)
    /\ UNCHANGED <<backend, limit, catalog>>

\* App has mounted and fetched the products; the cart is empty
InitCart ==
    /\ products = SeedProducts
    /\ users = SeedUsers
    /\ sales = <<>>
    /\ diskProducts = SeedProducts
    /\ diskUsers = SeedUsers
    /\ diskSales = <<>>
    /\ issued = SeedClaims
    /\ req = [s \in Slots |-> IdleReq]
    /\ received = 0
    /\ response = NoResponse
    /\ limit = MaxRequests
    /\ failed = FALSE
    /\ cart = <<>>
    /\ catalog \in Catalogs

NextCart ==
    \/ \E i \in DOMAIN catalog : handleAdd(catalog[i])
    \/ \E k \in DOMAIN cart, delta \in {-1, 1} : ClickQuantity(cart[k], delta)
    \/ \E k \in DOMAIN cart : ClickRemove(cart[k])

SpecCart == InitCart /\ [][NextCart]_vars

\* ======================================================================
\* Properties
\* ======================================================================
ProductById(prods, id) == prods[IndexById(prods, id)]

\* the units of product id a cart asks for, over all its lines
QuantityOrdered(items, id) ==
    LET sum[k \in 0..Len(items)] ==
            IF k = 0 THEN 0
            ELSE sum[k - 1] + (IF items[k].id = id THEN items[k].quantity ELSE 0)
    IN  sum[Len(items)]

\* the units of product id the recorded sales have sold
QuantitySold(id) ==
    LET sum[k \in 0..Len(sales)] ==
            IF k = 0 THEN 0
            ELSE sum[k - 1] + (IF sales[k].productId = id THEN sales[k].quantity ELSE 0)
    IN  sum[Len(sales)]

\* the sum of the totals of a list of sales
SumOfTotals(list) ==
    LET sum[k \in 0..Len(list)] == IF k = 0 THEN 0 ELSE sum[k - 1] + list[k].total
    IN  sum[Len(list)]

OrderInProgress(s) == req[s].pc \in {"order_sales", "order_products"}

\* C1: a POST /orders that is answered 400 leaves every product's stock and
\* the sales collection exactly as they were, also when earlier lines of the
\* cart were valid.
C1_AllOrNothing ==
    [][(response'.op = "order" /\ response'.status = 400)
          => (products' = products /\ sales' = sales)]_vars

\* C2: an order whose lines are all valid takes from each product exactly the
\* quantity the cart asks of it (nothing from the others), appends one sale
\* per cart line, in cart order, with total = price x quantity at the prices
\* of that moment, and its 201 response carries those sales and their sum.
C2_ValidOrder ==
    [][/\ \A s \in Slots :
            (req[s].pc # "order_sales" /\ req'[s].pc = "order_sales") =>
                LET items == req'[s].body.items
                    newSales == req'[s].newSales
                IN  /\ DOMAIN products' = DOMAIN products
                    /\ \A i \in DOMAIN products :
                          products'[i] =
                              [products[i] EXCEPT
                                  !.stock = @ - QuantityOrdered(items, products[i].id)]
                    /\ sales' = sales \o newSales
                    /\ Len(newSales) = Len(items)
                    /\ \A k \in DOMAIN items :
                          /\ newSales[k].productId = items[k].id
                          /\ newSales[k].quantity = items[k].quantity
                          /\ newSales[k].total =
                                ProductById(products, items[k].id).price * items[k].quantity
                    /\ req'[s].orderTotal = SumOfTotals(newSales)
       /\ (response'.op = "order" /\ response'.status = 201) =>
            /\ \E s \in Slots : /\ req[s].pc = "order_products"
                                /\ req'[s].pc = "idle"
                                /\ response'.items = req[s].newSales
            /\ response'.total = SumOfTotals(response'.items)
      ]_vars

\* a two-line order has been answered 201
C2_Witness ==
    /\ response.op = "order"
    /\ response.status = 201
    /\ Len(response.items) = 2

\* C3: no product's stock is ever negative, under any interleaving of
\* requests whose line quantities are positive.
C3_StockNeverNegative ==
    \A i \in DOMAIN products : products[i].stock >= 0

\* an order is refused for a product that another order, still in progress,
\* has sold out
C3_Witness ==
    /\ response.op = "order"
    /\ response.error = "Stock insuficiente"
    /\ response.available = 0
    /\ \E s \in Slots :
          /\ OrderInProgress(s)
          /\ QuantityOrdered(req[s].body.items, response.product) > 0
          /\ QuantityOrdered(req[s].body.items, response.product)
                = ProductById(SeedProducts, response.product).stock

\* C4: for each product, the recorded sales have sold at most the stock the
\* product had at startup.
C4_SoldWithinStartupStock ==
    \A i \in DOMAIN SeedProducts :
        QuantitySold(SeedProducts[i].id) <= SeedProducts[i].stock

\* C5 (as amended): however order requests interleave, what they have sold
\* of a product and what is left of it never exceed its startup stock: two
\* orders in progress at the same time do not both pass the stock check
\* before either decrements, because a request checks and decrements a line
\* in one uninterrupted pass.
C5_OrdersNeverOversell ==
    \A i \in DOMAIN products :
        /\ products[i].stock >= 0
        /\ QuantitySold(products[i].id) + products[i].stock <= SeedProducts[i].stock

\* an order is refused for a product while another order that took units of
\* it is still in progress: the stock it was checked against is the startup
\* stock less what the order in progress took
C5_Witness ==
    /\ response.op = "order"
    /\ response.error = "Stock insuficiente"
    /\ response.available > 0
    /\ \E s \in Slots :
          /\ OrderInProgress(s)
          /\ QuantityOrdered(req[s].body.items, response.product) > 0
          /\ response.available =
                ProductById(SeedProducts, response.product).stock
                    - QuantityOrdered(req[s].body.items, response.product)

\* C5 (as stated): an order request that arrives while another order for the
\* same product is in progress passes the stock check against the stock the
\* other has not yet decremented, so both are accepted and together they
\* sell more than was in stock.
C5_BothPassTheStockCheck ==
    [][\A s, other \in Slots, h \in AuthHeaders, id \in ProductIds, quantity \in Quantities :
          LET items == <<[id |-> id, quantity |-> quantity]>>
              taken == QuantityOrdered(req[other].body.items, id)
          IN  (/\ OrderInProgress(other)
               /\ taken > 0
               /\ authenticateToken(h).status = 200
               /\ IndexById(users, authenticateToken(h).user.id) # 0
               /\ quantity <= ProductById(products, id).stock + taken
               /\ PostOrders(s, h, items))
              => req'[s].pc = "order_sales"
      ]_vars

\* C6: a registration with name, email and password present whose email is
\* that of a user in the users collection is answered 400 with the
\* duplicate-email error, and neither creates a user nor goes on to create
\* one: users is unchanged and no registration for that email is in progress.
C6_DuplicateEmailRefused ==
    [][/\ \A s \in Slots, body \in RegisterBodies :
            (/\ body.name # "" /\ body.email # "" /\ body.password # ""
             /\ \E i \in DOMAIN users : users[i].email = body.email
             /\ PostAuthRegister(s, body))
            => /\ response' = Resp("register", 400, "El email ya esta registrado")
               /\ users' = users
               /\ req' = req
       /\ \A s \in Slots :
            (req[s].pc = "idle" /\ req'[s].pc = "register_hash")
            => \A i \in DOMAIN users : users[i].email # req'[s].body.email
      ]_vars

\* a registration has been refused for its email
C6_Witness ==
    response = Resp("register", 400, "El email ya esta registrado")

\* C7: no two users have the same email.
C7_EmailsUnique ==
    \A i, j \in DOMAIN users : users[i].email = users[j].email => i = j

\* users without the record at index
WithoutIndex(seq, index) ==
    [k \in 1..(Len(seq) - 1) |-> IF k < index THEN seq[k] ELSE seq[k + 1]]

\* C8: DELETE /users/:id by an admin: with a sale of that user id, 400 and
\* users unchanged; with none and a user of that id, that one record is
\* removed and the others stay as they are, in their order; with no such
\* user, 404 and users unchanged.
C8_DeleteUser ==
    [][\A s \in Slots, h \in AuthHeaders, id \in UserIds :
          (AdminGate(h).status = 200 /\ DeleteUsersId(s, h, id))
          => IF \E k \in DOMAIN sales : sales[k].userId = id
             THEN /\ response'.op = "delete-user"
                  /\ response'.status = 400
                  /\ users' = users
             ELSE IF \E i \in DOMAIN users : users[i].id = id
             THEN /\ \E i \in DOMAIN users :
                        /\ users[i].id = id
                        /\ users' = WithoutIndex(users, i)
                  /\ response' = NoResponse
             ELSE /\ response'.op = "delete-user"
                  /\ response'.status = 404
                  /\ users' = users
      ]_vars

\* the deletion of a user who has a sale has been refused
C8_Witness ==
    /\ response.op = "delete-user"
    /\ response.status = 400
    /\ sales # <<>>
    /\ Len(users) >= Len(SeedUsers)

\* C9: a login with email and password present is answered 200, with a token
\* for the user's id, email and role, exactly when a user with that email
\* exists and the password matches the user's stored hash, and 401 with one
\* and the same message otherwise; it changes no collection.
C9_LoginDecidedByPassword ==
    [][\A body \in LoginBodies :
          (body.email # "" /\ body.password # "" /\ PostAuthLogin(body))
          => /\ IF \E i \in DOMAIN users :
                      /\ users[i].email = body.email
                      /\ users[i].password = bcryptHash(body.password)
                THEN /\ response'.status = 200
                     /\ \E i \in DOMAIN users :
                           /\ users[i].email = body.email
                           /\ users[i].password = bcryptHash(body.password)
                           /\ response'.token = [id |-> users[i].id,
                                                 email |-> users[i].email,
                                                 role |-> users[i].role]
                ELSE response' = Resp("login", 401, "Credenciales invalidas")
             /\ UNCHANGED <<users, products, sales>>
      ]_vars

\* the protected operations as index.js serves them: POST /orders,
\* PUT /products/:id and DELETE /users/:id have a handler in each API
PlaceOrder(s, h, items) ==
    \/ PostOrders(s, h, items)
    \/ \E email \in Emails : PostOrdersLegacy(s, email, items)

UpdateProductPrice(s, h, id, price) ==
    \/ PutProductsId(s, h, id, price)
    \/ PutProductsIdLegacy(s, id, price)

RemoveUser(s, h, id) ==
    \/ DeleteUsersId(s, h, id)
    \/ DeleteUsersIdLegacy(s, id)

ProtectedOperation(s, h) ==
    \/ \E items \in Carts : PlaceOrder(s, h, items)
    \/ GetOrdersMyOrders(h)
    \/ GetAuthProfile(h)
    \/ \E name \in Names \cup {""} : PutAuthProfile(s, h, name)
    \/ \E id \in ProductIds \cup {UnknownProductId}, price \in Prices :
          UpdateProductPrice(s, h, id, price)
    \/ \E id \in UserIds : RemoveUser(s, h, id)
    \/ GetSales(h)

\* C10: a request for a protected operation with no bearer token is answered
\* 401 and one whose token fails the signature or expiry check 403; in both
\* cases the handler does not run: users, products and sales are unchanged
\* and no handler is suspended.
C10_NoTokenNoHandler ==
    [][\A s \in Slots, h \in AuthHeaders :
          (authenticateToken(h).status # 200 /\ ProtectedOperation(s, h))
          => /\ response'.status = authenticateToken(h).status
             /\ response'.status = IF Len(h) < 2 THEN 401 ELSE 403
             /\ UNCHANGED <<users, products, sales, req>>
      ]_vars

\* the administrative operations as index.js serves them
AdminOperation(s, h) ==
    \/ \E id \in ProductIds \cup {UnknownProductId}, price \in Prices :
          UpdateProductPrice(s, h, id, price)
    \/ \E id \in UserIds : RemoveUser(s, h, id)
    \/ GetSales(h)

\* C11: a price is changed, a user is deleted and the sales list is returned
\* only for a request with a valid token whose role is "admin": any other
\* request for these operations changes nothing, starts no handler and is not
\* given the sales, and one with a valid token of another role is answered 403.
C11_AdminOnly ==
    [][\A s \in Slots, h \in AuthHeaders :
          (AdminGate(h).status # 200 /\ AdminOperation(s, h))
          => /\ UNCHANGED <<products, users, sales, req>>
             /\ response'.status # 200
             /\ response'.items = <<>>
             /\ authenticateToken(h).status = 200 => response'.status = 403
      ]_vars

\* C12 (as amended): the registration appends, once its password is hashed,
\* exactly one user whose id is the number of users at that moment plus one,
\* whose role is "customer" and whose password is the hash of the submitted
\* one, never the submitted one; the existing users are unchanged by every
\* step of the handler; the 201 response carries that user without the
\* password field and a token for its id, email and role.
C12_RegisterSuccess ==
    [][/\ \A s \in Slots :
            RegisterHashed(s) =>
                LET newUser == users'[Len(users')]
                IN  /\ users' = Append(users, newUser)
                    /\ newUser.id = Len(users) + 1
                    /\ newUser.name = req[s].body.name
                    /\ newUser.email = req[s].body.email
                    /\ newUser.role = "customer"
                    /\ newUser.password.kind = "bcrypt"
                    /\ bcryptCompare(req[s].body.password, newUser.password) = "true"
                    /\ newUser.password # Raw(req[s].body.password)
                    /\ req'[s].newUser = newUser
       /\ \A s \in Slots, body \in RegisterBodies : PostAuthRegister(s, body) => users' = users
       /\ \A s \in Slots : RegisterWritten(s) =>
                /\ users' = users
                /\ response'.status = 201
                /\ "password" \notin DOMAIN response'.user
                /\ response'.user = [id |-> req[s].newUser.id,
                                     name |-> req[s].newUser.name,
                                     email |-> req[s].newUser.email,
                                     role |-> req[s].newUser.role]
                /\ response'.token = [id |-> req[s].newUser.id,
                                      email |-> req[s].newUser.email,
                                      role |-> req[s].newUser.role]
       /\ (response'.op = "register" /\ response'.status = 201)
            => \E s \in Slots : RegisterWritten(s)
      ]_vars

\* a registration has been answered 201 for a user that was appended after
\* another request had added a user
C12_Witness ==
    /\ response.op = "register"
    /\ response.status = 201
    /\ response.user.id = Len(SeedUsers) + 2

\* C12 (as stated): the id of the user a registration appends is the number
\* of users before the request plus one.
C12_IdFromArrival ==
    [][\A s \in Slots :
          RegisterHashed(s) => users'[Len(users')].id = req[s].usersBefore + 1
      ]_vars

\* the user a claim was signed for is no longer in users: no user has the
\* claim's id and email (users leave the collection by deletion only)
Deleted(claim) ==
    ~\E i \in DOMAIN users : users[i].id = claim.id /\ users[i].email = claim.email

\* C13: an order with a cart of at least one line, carrying a valid token of
\* a user who has been deleted, is answered 404, records no sale, changes no
\* stock and starts no handler, whatever registrations and deletions came
\* after the token was signed: the token is not taken for another account.
C13_DeletedUsersToken ==
    [][\A s \in Slots, h \in AuthHeaders, items \in Carts :
          (/\ items # <<>>
           /\ authenticateToken(h).status = 200
           /\ Deleted(authenticateToken(h).user)
           /\ PostOrders(s, h, items))
          => /\ response' = Resp("order", 404, "Usuario no encontrado")
             /\ UNCHANGED <<products, sales, req>>
      ]_vars

\* C14: an order that is accepted when the sales collection has length L
\* gives its n new sales the ids L+1, ..., L+n in cart order, pairwise
\* distinct; for the authenticated POST /orders that is the length at the
\* arrival of the request; the id its 201 response reports for the order is
\* the id of the first new sale.
C14_SaleIds ==
    [][/\ \A s \in Slots :
            (req[s].pc # "order_sales" /\ req'[s].pc = "order_sales") =>
                LET newSales == req'[s].newSales
                IN  /\ Len(newSales) = Len(req'[s].body.items)
                    /\ \A k \in DOMAIN newSales :
                          /\ newSales[k].id = Len(sales) + k
                          /\ newSales[k].productId = req'[s].body.items[k].id
                    /\ \A k, l \in DOMAIN newSales :
                          newSales[k].id = newSales[l].id => k = l
       /\ \A s \in Slots :
            (req[s].pc # "order_sales" /\ req'[s].pc = "order_sales" /\ req'[s].api = 2)
            => /\ req[s].pc = "idle"
               /\ received' = received + 1
       /\ \A s \in Slots :
            (OrderInProgress(s) /\ req'[s].pc # "idle")
            => req'[s].newSales = req[s].newSales
       /\ \A s \in Slots :
            OrderProductsWritten(s)
            => /\ response'.status = 201
               /\ response'.items = req[s].newSales
               /\ response'.id = req[s].newSales[1].id
      ]_vars

\* a two-line order that was accepted when one sale was recorded has been
\* answered 201: its sales have the ids 2 and 3 and the order the id 2
C14_Witness ==
    /\ response.op = "order"
    /\ response.status = 201
    /\ Len(response.items) = 2
    /\ response.id = 2
    /\ response.items[1].id = 2
    /\ response.items[2].id = 3

\* C15 (as amended): however requests interleave, no two recorded sales have
\* the same id: a sale's id is its position in the sales collection, because
\* a request reads sales.length and pushes its sales in one uninterrupted
\* pass.
C15_SaleIdsUnique ==
    /\ \A k \in DOMAIN sales : sales[k].id = k
    /\ \A k, l \in DOMAIN sales : sales[k].id = sales[l].id => k = l

\* two orders are in progress at the same time, each with its sales recorded
C15_Witness ==
    \E s, other \in Slots :
        /\ s # other
        /\ OrderInProgress(s)
        /\ OrderInProgress(other)
        /\ Len(sales) = Len(req[s].newSales) + Len(req[other].newSales)

\* C15 (as stated): when order requests interleave, two sales are recorded
\* with the same id: the order that is accepted while another order is in
\* progress leaves a duplicated id in the sales collection.
C15_InterleavedOrdersCollide ==
    [][\A s, other \in Slots :
          (/\ s # other
           /\ OrderInProgress(other)
           /\ req[s].pc # "order_sales"
           /\ req'[s].pc = "order_sales")
          => \E k, l \in DOMAIN sales' : k # l /\ sales'[k].id = sales'[l].id
      ]_vars

\* C16: the sales collection is append-only: in every step the sales of
\* before are a prefix of the sales of after, so no operation removes a
\* sale, reorders the sales or changes a field of a sale.
C16_SalesAppendOnly ==
    [][/\ Len(sales') >= Len(sales)
       /\ SubSeq(sales', 1, Len(sales)) = sales
      ]_vars

\* sales recorded by an order are followed by a sale recorded by POST /sales
C16_Witness ==
    /\ Len(sales) >= 2
    /\ \E s \in Slots : /\ req[s].pc = "sale_write"
                        /\ req[s].newSales = <<sales[Len(sales)]>>

\* the stock on file of every product the order of slot s took units of
\* does not have these units taken off: it is at least the stock in memory
\* plus the units the order took
StockNotYetDecremented(s) ==
    /\ Len(diskProducts) = Len(products)
    /\ \A i \in DOMAIN products :
          LET taken == QuantityOrdered(req[s].body.items, products[i].id)
          IN  taken > 0 => diskProducts[i].stock >= products[i].stock + taken

\* the sales of the order of slot s are on file
SalesRecorded(s) ==
    \E k \in 0..Len(diskSales) :
        SubSeq(diskSales, k + 1, Len(diskSales)) = req[s].newSales

C18_WriteFailureAnswered ==
    [][\A s \in Slots :
          (req[s].api = 2 /\ WriteFails(s))
          => /\ response'.status = 500
             /\ req' = [req EXCEPT ![s] = IdleReq]
             /\ UNCHANGED <<products, users, sales, diskProducts, diskUsers, diskSales>>
      ]_vars

\* a step of order placement: the loop of POST /orders has run, and the order
\* is accepted or answered 400
OrderPlacementStep ==
    \E s \in Slots :
        /\ req[s].pc \in {"idle", "legacy_users"}
        /\ \/ req'[s].pc = "order_sales"
           \/ response'.op = "order" /\ response'.status = 400

\* a step of the price update: products[index].price has been assigned
PriceUpdateStep ==
    \E s \in Slots : req[s].pc = "idle" /\ req'[s].pc = "price_write"

\* C19: no step adds or removes a product or changes a product's id, name,
\* category or image; a stock changes only in a step of order placement and
\* a price only in a step of the price update; every other step leaves the
\* products collection as it is.
C19_ProductsFrame ==
    [][/\ Len(products') = Len(products)
       /\ \A i \in DOMAIN products :
            /\ products'[i].id = products[i].id
            /\ products'[i].name = products[i].name
            /\ products'[i].category = products[i].category
            /\ products'[i].image = products[i].image
            /\ products'[i].stock # products[i].stock => OrderPlacementStep
            /\ products'[i].price # products[i].price => PriceUpdateStep
       /\ ~(OrderPlacementStep \/ PriceUpdateStep) => products' = products
      ]_vars

\* a price has been updated and an order has taken stock
C19_Witness ==
    /\ \E i \in DOMAIN products : products[i].price # SeedProducts[i].price
    /\ \E i \in DOMAIN products : products[i].stock # SeedProducts[i].stock
    /\ sales # <<>>

\* the stock the storefront knows for a product: the one it has fetched
KnownStock(id) == catalog[IndexById(catalog, id)].stock

\* C20: starting from an empty cart, after any sequence of clicks on the add
\* button of a product card, on the quantity buttons and on the remove button
\* of a cart line, every cart line has a quantity of at least 1 and at most
\* the stock known for its product, and no two lines have the same product.
C20_CartWithinStock ==
    /\ \A k \in DOMAIN cart :
          /\ cart[k].quantity >= 1
          /\ cart[k].quantity <= cart[k].stock
          /\ cart[k].quantity <= KnownStock(cart[k].id)
    /\ \A k, l \in DOMAIN cart : cart[k].id = cart[l].id => k = l

\* a cart of two lines, one of them at the stock known for its product after
\* the quantity was raised
C20_Witness ==
    /\ Len(cart) = 2
    /\ \E k \in DOMAIN cart :
          /\ cart[k].quantity >= 2
          /\ cart[k].quantity = KnownStock(cart[k].id)

\* C21: after any sequence of registrations and deletions of users by an
\* admin, no two users have the same id.
C21_UserIdsUnique ==
    \A i, j \in DOMAIN users : users[i].id = users[j].id => i = j

\* C22: in every reachable state every sale's userId is the id of a user in
\* the users collection and every sale's productId is the id of a product in
\* the products collection.
C22_ReferentialIntegrity ==
    \A k \in DOMAIN sales :
        /\ \E i \in DOMAIN users : users[i].id = sales[k].userId
        /\ \E i \in DOMAIN products : products[i].id = sales[k].productId

\* the admin records of a list of users
AdminRecords(list) == SelectSeq(list, LAMBDA user : user.role = "admin")

\* C23: every step that adds a user appends one record, with the role
\* "customer"; no step changes the id, email or role of a user that stays in
\* the collection; so the admin records never grow in number.  The profile
\* update changes nothing but the name of the record the caller's id finds.
C23_RolesFrame ==
    [][/\ Len(users') > Len(users) =>
            /\ users' = Append(users, users'[Len(users')])
            /\ users'[Len(users')].role = "customer"
       /\ Len(users') = Len(users) =>
            \A i \in DOMAIN users :
                /\ users'[i].role = users[i].role
                /\ users'[i].id = users[i].id
                /\ users'[i].email = users[i].email
                /\ users'[i].password = users[i].password
       /\ Len(users') < Len(users) =>
            \E i \in DOMAIN users : users' = WithoutIndex(users, i)
       /\ Len(AdminRecords(users')) <= Len(AdminRecords(users))
       /\ \A s \in Slots, h \in AuthHeaders, name \in Names \cup {""} :
            PutAuthProfile(s, h, name) =>
                \A i \in DOMAIN users :
                    users'[i] # users[i] =>
                        /\ i = IndexById(users, authenticateToken(h).user.id)
                        /\ users'[i] = [users[i] EXCEPT !.name = name]
      ]_vars

\* users have been added and the admin has changed the name of its record:
\* there is still the one admin record
C23_Witness ==
    /\ Len(users) > Len(SeedUsers)
    /\ Len(AdminRecords(users)) = 1
    /\ AdminRecords(users)[1].name # SeedUsers[1].name

\* C24: whenever no request is in progress and no file write has failed,
\* each of the three files holds exactly the collection in memory.
C24_FilesMatchMemory ==
    ((\A s \in Slots : req[s].pc = "idle") /\ ~failed)
    => /\ diskProducts = products
       /\ diskUsers = users
       /\ diskSales = sales
====
